---- MODULE Spec2Model ----
(***************************************************************************)
(* Model of rust-scalargrad's computation-graph engine (src/scalar.rs,     *)
(* src/arena.rs): the append-only arena behind a reader/writer lock, the   *)
(* Scalar operator surface, the depth-first topological sort and the       *)
(* reverse-mode backward pass.                                             *)
(*                                                                         *)
(* f64 values are modelled by integers.  The only operation that leaves    *)
(* the integers is powf with a negative exponent (used by division), so    *)
(* the actions that raise to the power -1 are offered only operands whose  *)
(* reciprocal is an integer (1 and -1).                                    *)
(*                                                                         *)
(* Node ids are 0-based as in the source; node id lives at nodes[id + 1].  *)
(***************************************************************************)
EXTENDS Integers, Sequences, FiniteSets, TLC

\* ---------------------------------------------------------------- bounds
\* calls one thread makes in a behaviour of SeqSpec
MaxLeaves == 2          \* ScalarGraph::scalar
MaxOps == 2             \* operators and activations
MaxPasses == 1          \* Scalar::backward
MaxSets == 1            \* Scalar::set_grad
MaxCalls == 4           \* of these four kinds together
\* calls one thread makes in a behaviour of RepeatSpec
RepLeaves == 1
RepOps == 1
RepPasses == 2
RepSets == 1
RepCalls == 5
\* calls the threads together make in a behaviour of Spec
ConcLeaves == 2
ConcOps == 1
ConcPasses == 1
ConcSets == 1
ConcCalls == 3
\* calls the threads together make in a behaviour of LockSpec
LockLeaves == 1
LockOps == 1
LockPasses == 1
LockSets == 1
LockCalls == 4
MaxNodes == 5           \* nodes one graph may hold

Threads == {1, 2}       \* threads sharing the graph under Spec
LeafVals == {-1, 2}     \* values handed to ScalarGraph::scalar
ConstVals == {-1}       \* f64 operands of the mixed operator forms
Exps == {2}             \* exponents handed to Scalar::pow (division adds -1)
GradVals == {0, 3}      \* values handed to Scalar::set_grad

VARIABLES
  nodes,      \* Arena.nodes: the node records, in allocation order
  ids,        \* ids[p]: the index Arena::push returned for the record at p
  handles,    \* indices of the Scalar handles returned to callers
  readers,    \* readers[t]: RwLockReadGuards thread t holds
  writerPref, \* whether the platform's RwLock blocks readers behind a waiting writer
  active,     \* the threads that run
  reserved,   \* nodes that operations under way will still mint
  pc,         \* pc[t]: where thread t is in its current public operation
  call,       \* call[t]: the primitive being evaluated by t
  cont,       \* cont[t]: the outer primitive of a derived operator, waiting for its operand
  x, y,       \* values read by data()/grad()
  stack,      \* stack[t]: the frames of the recursive dfs
  sort,       \* topo's output vector
  visited,    \* topo's HashSet
  root,       \* the handle backward() was called on
  idx,        \* position of backward's reverse iterator in sort
  used,       \* used[k]: calls of kind k made so far
  cap,        \* cap[k]: calls of kind k the behaviour may make
  g0,         \* g0[t]: the gradients when t called backward()
  applied,    \* applied[t][p]: times Op::backward ran on node p-1 in t's pass
  gAtRule,    \* gAtRule[t][p]: node p-1's gradient when its rule ran
  steps,      \* steps t's pass has taken
  reset,      \* nodes set to gradient 0 since a pass last completed
  last        \* last[t]: "backward" right after t's pass completed

vars == <<nodes, ids, handles, readers, writerPref, active, reserved, pc, call,
          cont, x, y, stack, sort, visited, root, idx, used, cap, g0,
          applied, gAtRule, steps, reset, last>>

shared == <<nodes, ids, handles>>
locals == <<call, cont, x, y>>
passLocals == <<stack, sort, visited, root, idx>>
ghosts == <<g0, applied, gAtRule, steps, last>>

\* ------------------------------------------------------------ the arena
NoneOp == [kind |-> "None", s |-> 0, o |-> 0]

\* Arena::push: the vector after the append
ArenaPush(ns, rec) == Append(ns, rec)

\* a push that returned nodes.len() after the append
PushIdOffByOne(ns) == Len(ns)

\* Arena::push: the index returned, nodes.len() - 1 after the append
PushId(ns) == Len(ns) - 1

\* Arena::node
Node(ns, id) == ns[id + 1]

\* Arena::node_mut(id).grad = g
WithGrad(ns, id, g) == [ns EXCEPT ![id + 1].grad = g]

\* a set_grad that assigned the value field
SetGradWritesData(ns, id, g) == [ns EXCEPT ![id + 1].data = g]

\* Scalar::set_grad
SetGrad(ns, id, g) == WithGrad(ns, id, g)

\* ScalarGraph::scalar: the record of a leaf
LeafRec(v) == [data |-> v, grad |-> 0, op |-> NoneOp]

\* ScalarGraph::scalar_op: the record of a derived node
OpRec(v, op) == [data |-> v, grad |-> 0, op |-> op]

\* ----------------------------------------------------------- arithmetic
RECURSIVE IPow(_, _)
IPow(v, n) == IF n = 0 THEN 1 ELSE v * IPow(v, n - 1)

Invertible(v) == v \in {1, -1}

\* f64::powf on the values the model uses
PowF(v, k) ==
  IF k >= 0 THEN IPow(v, k)
  ELSE IF v = 1 \/ (-k) % 2 = 0 THEN 1 ELSE -1

\* f64::powf(-1.0) of a constant
Recip(c) == PowF(c, -1)

\* the forward value handed to scalar_op by each operator
Fwd(kind, a, b, k) ==
  CASE kind = "Add" -> a + b
    [] kind = "Mul" -> a * b
    [] kind = "Pow" -> PowF(a, k)
    [] kind = "ReLU" -> b

\* a dfs that recursed into the first operand only
OperandsFirstOnly(op) ==
  IF op.kind \in {"Add", "Mul", "Pow", "ReLU"} THEN <<op.s>> ELSE <<>>

\* the operand indices dfs recurses into, in order
Operands(op) ==
  CASE op.kind \in {"Add", "Mul"} -> <<op.s, op.o>>
    [] op.kind \in {"Pow", "ReLU"} -> <<op.s>>
    [] OTHER -> <<>>

\* ------------------------------------------------- the local backward rule
\* con.node_mut(n).grad += d
Acc(ns, n, d) == WithGrad(ns, n, Node(ns, n).grad + d)

\* local rules that assigned (=) where the code adds (+=)
OpBackwardOverwrite(ns, id) ==
  LET grad == Node(ns, id).grad
      op == Node(ns, id).op
  IN CASE op.kind = "Add" -> WithGrad(WithGrad(ns, op.s, grad), op.o, grad)
       [] op.kind = "Mul" ->
            LET m1 == WithGrad(ns, op.s, Node(ns, op.o).data * grad)
            IN WithGrad(m1, op.o, Node(m1, op.s).data * grad)
       [] op.kind = "Pow" ->
            WithGrad(ns, op.s, (op.o * PowF(Node(ns, op.s).data, op.o - 1)) * grad)
       [] op.kind = "ReLU" ->
            WithGrad(ns, op.s, IF Node(ns, id).data > 0 THEN grad ELSE 0)
       [] OTHER -> ns

\* local rules that read the operand's own value, not the other's, and
\* dropped the exponent factor
OpBackwardOwnData(ns, id) ==
  LET grad == Node(ns, id).grad
      op == Node(ns, id).op
  IN CASE op.kind = "Add" -> Acc(Acc(ns, op.s, grad), op.o, grad)
       [] op.kind = "Mul" ->
            LET m1 == Acc(ns, op.s, Node(ns, op.s).data * grad)
            IN Acc(m1, op.o, Node(m1, op.o).data * grad)
       [] op.kind = "Pow" ->
            Acc(ns, op.s, PowF(Node(ns, op.s).data, op.o - 1) * grad)
       [] op.kind = "ReLU" ->
            Acc(ns, op.s, IF Node(ns, op.s).data >= 0 THEN grad ELSE 0)
       [] OTHER -> ns

\* Op::backward, inside its one exclusive acquisition
OpBackward(ns, id) ==
  LET grad == Node(ns, id).grad
      op == Node(ns, id).op
  IN CASE op.kind = "Add" -> Acc(Acc(ns, op.s, grad), op.o, grad)
       [] op.kind = "Mul" ->
            LET m1 == Acc(ns, op.s, Node(ns, op.o).data * grad)
            IN Acc(m1, op.o, Node(m1, op.s).data * grad)
       [] op.kind = "Pow" ->
            Acc(ns, op.s, (op.o * PowF(Node(ns, op.s).data, op.o - 1)) * grad)
       [] op.kind = "ReLU" ->
            Acc(ns, op.s, IF Node(ns, id).data > 0 THEN grad ELSE 0)
       [] OTHER -> ns

\* ------------------------------------------------------------- the lock
\* program points at which a thread is inside (or about to call) write()
WritePcs == {"leaf", "const", "mint", "set_grad", "seed", "bwd"}

\* RwLock::write returns: no read guard is out, the caller's own included.
\* Every exclusive section of the source (push, set_grad, Op::backward) asks
\* for no lock inside it and is one step here, so no writer holds the lock
\* between two steps.
CanWrite(t) == \A u \in active : readers[u] = 0

\* another thread has called write() and is held up by read guards
WriterWaiting(t) == \E u \in active \ {t} : pc[u] \in WritePcs /\ ~CanWrite(u)

\* RwLock::read returns.  std leaves the priority policy to the platform: a
\* waiting writer "might or might not block concurrent calls to read", also
\* a call of a thread that already holds a read guard.  writerPref is that
\* choice.
CanRead(t) == ~(writerPref /\ WriterWaiting(t))

\* ---------------------------------------------------------------- state
NoCall == [kind |-> "None", s |-> 0, o |-> 0, c |-> 0, konst |-> "none"]

Zeros(n) == [p \in 1..n |-> 0]

NoneUsed == [leaves |-> 0, ops |-> 0, passes |-> 0, sets |-> 0]
SeqCaps == [leaves |-> MaxLeaves, ops |-> MaxOps, passes |-> MaxPasses,
            sets |-> MaxSets, calls |-> MaxCalls]
RepCaps == [leaves |-> RepLeaves, ops |-> RepOps, passes |-> RepPasses,
            sets |-> RepSets, calls |-> RepCalls]
LockCaps == [leaves |-> LockLeaves, ops |-> LockOps, passes |-> LockPasses,
             sets |-> LockSets, calls |-> LockCalls]
ConcCaps == [leaves |-> ConcLeaves, ops |-> ConcOps, passes |-> ConcPasses,
             sets |-> ConcSets, calls |-> ConcCalls]

\* one more call of kind k, if the behaviour may still make one
Use(k) ==
  /\ used[k] < cap[k]
  /\ used.leaves + used.ops + used.passes + used.sets < cap.calls
  /\ used' = [used EXCEPT ![k] = @ + 1]
  /\ UNCHANGED cap

\* ScalarGraph::new / ScalarGraph::with: an empty arena, used by the threads
\* thr within the budget caps; no operation is under way
InitWith(thr, caps) ==
  /\ nodes = <<>>
  /\ ids = <<>>
  /\ handles = {}
  /\ readers = [t \in Threads |-> 0]
  /\ active = thr
  /\ reserved = 0
  /\ pc = [t \in Threads |-> "idle"]
  /\ call = [t \in Threads |-> NoCall]
  /\ cont = [t \in Threads |-> NoCall]
  /\ x = [t \in Threads |-> 0]
  /\ y = [t \in Threads |-> 0]
  /\ stack = [t \in Threads |-> <<>>]
  /\ sort = [t \in Threads |-> <<>>]
  /\ visited = [t \in Threads |-> {}]
  /\ root = [t \in Threads |-> 0]
  /\ idx = [t \in Threads |-> 0]
  /\ used = NoneUsed
  /\ cap = caps
  /\ g0 = [t \in Threads |-> <<>>]
  /\ applied = [t \in Threads |-> <<>>]
  /\ gAtRule = [t \in Threads |-> <<>>]
  /\ steps = [t \in Threads |-> 0]
  /\ reset = {}
  /\ last = [t \in Threads |-> "none"]

\* the threads of Threads share one graph, on either kind of platform
Init == writerPref \in BOOLEAN /\ InitWith(Threads, ConcCaps)

\* the threads of Threads share one graph: a pass beside a writer
LockInit == writerPref \in BOOLEAN /\ InitWith(Threads, LockCaps)

\* one thread builds a graph and runs a backward pass
SeqInit == writerPref = TRUE /\ InitWith({1}, SeqCaps)

\* one thread runs backward passes again and again on a small graph
RepeatInit == writerPref = TRUE /\ InitWith({1}, RepCaps)

\* ------------------------------------------------ starting an operation
\* a caller begins a public operation: the previous operation's results are
\* gone, and the operator's first primitive c (with outer primitive k, if it
\* is a derived operator) is set up; need is the number of nodes it mints
Start(t, c, k, need) ==
  /\ t \in active
  /\ pc[t] = "idle"
  /\ Use(IF c.kind = "None" THEN "leaves" ELSE "ops")
  /\ Len(nodes) + reserved + need <= MaxNodes
  /\ reserved' = reserved + need
  /\ call' = [call EXCEPT ![t] = c]
  /\ cont' = [cont EXCEPT ![t] = k]
  /\ pc' = [pc EXCEPT ![t] = IF c.kind = "None" THEN "leaf"
                             ELSE IF c.konst # "none" THEN "const"
                             ELSE "data_s"]
  /\ x' = [x EXCEPT ![t] = 0]
  /\ y' = [y EXCEPT ![t] = 0]
  /\ g0' = [g0 EXCEPT ![t] = <<>>]
  /\ applied' = [applied EXCEPT ![t] = <<>>]
  /\ gAtRule' = [gAtRule EXCEPT ![t] = <<>>]
  /\ steps' = [steps EXCEPT ![t] = 0]
  /\ last' = [last EXCEPT ![t] = "none"]
  /\ reset' = IF last[t] = "backward" THEN {} ELSE reset
  /\ root' = [root EXCEPT ![t] = 0]
  /\ UNCHANGED <<shared, readers, writerPref, active, stack, sort, visited, idx>>

Prim(kind, s, o) == [kind |-> kind, s |-> s, o |-> o, c |-> 0, konst |-> "none"]
PrimConstS(kind, c, o) == [kind |-> kind, s |-> 0, o |-> o, c |-> c, konst |-> "s"]
PrimConstO(kind, s, c) == [kind |-> kind, s |-> s, o |-> 0, c |-> c, konst |-> "o"]

\* ScalarGraph::scalar(data)
ScalarCall(t) ==
  \E v \in LeafVals :
    Start(t, [kind |-> "None", s |-> 0, o |-> 0, c |-> v, konst |-> "none"], NoCall, 1)

\* Scalar + Scalar, &Scalar + &Scalar
AddSS(t) == \E a, b \in handles : Start(t, Prim("Add", a, b), NoCall, 1)

\* Scalar + f64
AddSF(t) ==
  \E a \in handles, c \in ConstVals : Start(t, PrimConstO("Add", a, c), NoCall, 2)

\* f64 + Scalar
AddFS(t) ==
  \E c \in ConstVals, b \in handles : Start(t, PrimConstS("Add", c, b), NoCall, 2)

\* Scalar * Scalar, &Scalar * &Scalar
MulSS(t) == \E a, b \in handles : Start(t, Prim("Mul", a, b), NoCall, 1)

\* Scalar * f64
MulSF(t) ==
  \E a \in handles, c \in ConstVals : Start(t, PrimConstO("Mul", a, c), NoCall, 2)

\* f64 * Scalar, f64 * &Scalar
MulFS(t) ==
  \E c \in ConstVals, b \in handles : Start(t, PrimConstS("Mul", c, b), NoCall, 2)

\* -Scalar, -&Scalar: -1.0 * self
Neg(t) == \E a \in handles : Start(t, PrimConstS("Mul", -1, a), NoCall, 2)

\* Scalar - Scalar, &Scalar - &Scalar: self + (-other), the negation first
SubSS(t) ==
  \E a, b \in handles :
    Start(t, PrimConstS("Mul", -1, b), Prim("Add", a, 0), 3)

\* Scalar - f64: self + (-rhs), the negation of a constant
SubSF(t) ==
  \E a \in handles, c \in ConstVals : Start(t, PrimConstO("Add", a, -c), NoCall, 2)

\* f64 - Scalar: self + (-rhs)
SubFS(t) ==
  \E c \in ConstVals, b \in handles :
    Start(t, PrimConstS("Mul", -1, b), PrimConstS("Add", c, 0), 4)

\* Scalar / Scalar, &Scalar / &Scalar: self * other.pow(-1.0)
DivSS(t) ==
  \E a, b \in handles :
    /\ Invertible(Node(nodes, b).data)
    /\ Start(t, Prim("Pow", b, -1), Prim("Mul", a, 0), 2)

\* Scalar / f64: self * rhs.powf(-1.0)
DivSF(t) ==
  \E a \in handles, c \in ConstVals :
    /\ Invertible(c)
    /\ Start(t, PrimConstO("Mul", a, Recip(c)), NoCall, 2)

\* f64 / Scalar: self * rhs.pow(-1.0)
DivFS(t) ==
  \E c \in ConstVals, b \in handles :
    /\ Invertible(Node(nodes, b).data)
    /\ Start(t, Prim("Pow", b, -1), PrimConstS("Mul", c, 0), 3)

\* Scalar::pow(other)
PowCall(t) ==
  \E a \in handles, k \in Exps :
    /\ k < 0 => Invertible(Node(nodes, a).data)
    /\ Start(t, Prim("Pow", a, k), NoCall, 1)

\* Scalar::relu()
ReluCall(t) == \E a \in handles : Start(t, Prim("ReLU", a, 0), NoCall, 1)

\* ------------------------------------------------ evaluating a primitive
\* the Scalar handle is returned to the caller; the operator's locals end
Finish(t, id) ==
  /\ handles' = handles \cup {id}
  /\ pc' = [pc EXCEPT ![t] = "idle"]
  /\ call' = [call EXCEPT ![t] = NoCall]
  /\ x' = [x EXCEPT ![t] = 0]
  /\ y' = [y EXCEPT ![t] = 0]

\* ScalarGraph::scalar: self.write().push(leaf), for a caller's leaf and for
\* the constant operand of a mixed operator form
ScalarPush(t) ==
  /\ pc[t] \in {"leaf", "const"}
  /\ CanWrite(t)
  /\ nodes' = ArenaPush(nodes, LeafRec(call[t].c))
  /\ ids' = Append(ids, PushId(nodes'))
  /\ reserved' = reserved - 1
  /\ IF pc[t] = "leaf"
       THEN Finish(t, PushId(nodes'))
       ELSE /\ call' = [call EXCEPT ![t] =
                  IF call[t].konst = "s"
                    THEN [call[t] EXCEPT !.s = PushId(nodes'), !.konst = "none"]
                    ELSE [call[t] EXCEPT !.o = PushId(nodes'), !.konst = "none"]]
            /\ pc' = [pc EXCEPT ![t] = "data_s"]
            /\ UNCHANGED <<handles, x, y>>
  /\ UNCHANGED <<readers, writerPref, active, cont, passLocals, used, cap,
                 ghosts, reset>>

\* self.data() of the first operand: one shared acquisition
DataS(t) ==
  /\ pc[t] = "data_s"
  /\ CanRead(t)
  /\ x' = [x EXCEPT ![t] = Node(nodes, call[t].s).data]
  /\ pc' = [pc EXCEPT ![t] =
       CASE call[t].kind \in {"Add", "Mul"} -> "data_o"
         [] call[t].kind = "Pow" -> "mint"
         [] call[t].kind = "ReLU" -> IF x'[t] > 0 THEN "data_s2" ELSE "mint"]
  /\ UNCHANGED <<shared, readers, writerPref, active, reserved, call, cont, y,
                 passLocals, used, cap, ghosts, reset>>

\* other.data() of the second operand: one shared acquisition
DataO(t) ==
  /\ pc[t] = "data_o"
  /\ CanRead(t)
  /\ y' = [y EXCEPT ![t] = Node(nodes, call[t].o).data]
  /\ pc' = [pc EXCEPT ![t] = "mint"]
  /\ UNCHANGED <<shared, readers, writerPref, active, reserved, call, cont, x,
                 passLocals, used, cap, ghosts, reset>>

\* relu's second self.data(), in the branch taken when the first is > 0
DataS2(t) ==
  /\ pc[t] = "data_s2"
  /\ CanRead(t)
  /\ y' = [y EXCEPT ![t] = Node(nodes, call[t].s).data]
  /\ pc' = [pc EXCEPT ![t] = "mint"]
  /\ UNCHANGED <<shared, readers, writerPref, active, reserved, call, cont, x,
                 passLocals, used, cap, ghosts, reset>>

\* ScalarGraph::scalar_op: self.write().push(node); the result is either the
\* caller's handle or the operand the outer primitive was waiting for
Mint(t) ==
  /\ pc[t] = "mint"
  /\ CanWrite(t)
  /\ nodes' = ArenaPush(nodes,
       OpRec(Fwd(call[t].kind, x[t], y[t], call[t].o),
             [kind |-> call[t].kind, s |-> call[t].s, o |-> call[t].o]))
  /\ ids' = Append(ids, PushId(nodes'))
  /\ reserved' = reserved - 1
  /\ IF cont[t].kind = "None"
       THEN /\ Finish(t, PushId(nodes'))
            /\ UNCHANGED cont
       ELSE /\ call' = [call EXCEPT ![t] = [cont[t] EXCEPT !.o = PushId(nodes')]]
            /\ cont' = [cont EXCEPT ![t] = NoCall]
            /\ pc' = [pc EXCEPT ![t] =
                 IF cont[t].konst # "none" THEN "const" ELSE "data_s"]
            /\ x' = [x EXCEPT ![t] = 0]
            /\ y' = [y EXCEPT ![t] = 0]
            /\ UNCHANGED handles
  /\ UNCHANGED <<readers, writerPref, active, passLocals, used, cap, ghosts,
                 reset>>

\* ------------------------------------------------- reads and set_grad
\* a caller begins data(), grad() or set_grad(g) on handle a
StartAccess(t, a, g, where) ==
  /\ t \in active
  /\ pc[t] = "idle"
  /\ call' = [call EXCEPT ![t] =
       [kind |-> "None", s |-> a, o |-> 0, c |-> g, konst |-> "none"]]
  /\ cont' = [cont EXCEPT ![t] = NoCall]
  /\ pc' = [pc EXCEPT ![t] = where]
  /\ x' = [x EXCEPT ![t] = 0]
  /\ y' = [y EXCEPT ![t] = 0]
  /\ g0' = [g0 EXCEPT ![t] = <<>>]
  /\ applied' = [applied EXCEPT ![t] = <<>>]
  /\ gAtRule' = [gAtRule EXCEPT ![t] = <<>>]
  /\ steps' = [steps EXCEPT ![t] = 0]
  /\ last' = [last EXCEPT ![t] = "none"]
  /\ reset' = IF last[t] = "backward" THEN {} ELSE reset
  /\ root' = [root EXCEPT ![t] = 0]
  /\ UNCHANGED <<shared, readers, writerPref, active, reserved, stack, sort,
                 visited, idx>>

\* Scalar::data(): self.graph.read().node(self.id).data
DataRead(t) ==
  /\ \E a \in handles : StartAccess(t, a, 0, "rd_data")
  /\ UNCHANGED <<used, cap>>

\* Scalar::grad(): self.graph.read().node(self.id).grad
GradRead(t) ==
  /\ \E a \in handles : StartAccess(t, a, 0, "rd_grad")
  /\ UNCHANGED <<used, cap>>

\* the shared acquisition of data() or grad(): x is the value returned
ReadReturn(t) ==
  /\ pc[t] \in {"rd_data", "rd_grad"}
  /\ CanRead(t)
  /\ x' = [x EXCEPT ![t] = IF pc[t] = "rd_data" THEN Node(nodes, call[t].s).data
                           ELSE Node(nodes, call[t].s).grad]
  /\ pc' = [pc EXCEPT ![t] = "idle"]
  /\ call' = [call EXCEPT ![t] = NoCall]
  /\ UNCHANGED <<shared, readers, writerPref, active, reserved, cont, y,
                 passLocals, used, cap, ghosts, reset>>

\* Scalar::set_grad(grad) called by the user
SetGradCall(t) ==
  /\ Use("sets")
  /\ \E a \in handles, g \in GradVals : StartAccess(t, a, g, "set_grad")

\* Scalar::set_grad: self.graph.write().node_mut(self.id).grad = grad
SetGradWrite(t) ==
  /\ pc[t] = "set_grad"
  /\ CanWrite(t)
  /\ nodes' = SetGrad(nodes, call[t].s, call[t].c)
  /\ reset' = IF call[t].c = 0 THEN reset \cup {call[t].s}
              ELSE reset \ {call[t].s}
  /\ pc' = [pc EXCEPT ![t] = "idle"]
  /\ call' = [call EXCEPT ![t] = NoCall]
  /\ UNCHANGED <<ids, handles, readers, writerPref, active, reserved, cont, x,
                 y, passLocals, used, cap, ghosts>>

\* ------------------------------------------------------------- backward
Top(t) == stack[t][Len(stack[t])]

Pop(stk) == SubSeq(stk, 1, Len(stk) - 1)

Grads(ns) == [p \in 1..Len(ns) |-> ns[p].grad]

\* a dfs without the visited check
NeverVisited(vis, id) == FALSE

\* visited.contains(&id)
IsVisited(vis, id) == id \in vis

\* a seed that added 1 to the root's gradient
SeedAdds(ns, r) == Acc(ns, r, 1)

\* backward: self.set_grad(1.0)
Seeded(ns, r) == SetGrad(ns, r, 1)

\* an iteration over the order without rev()
IterFwd(srt, n) == srt[Len(srt) - n + 1]

\* sorted.iter().rev(): the element visited when n elements are left
IterRev(srt, n) == srt[n]

\* Scalar::backward called by the user: topo() starts with dfs(root)
Backward(t) ==
  /\ t \in active
  /\ pc[t] = "idle"
  /\ Use("passes")
  /\ \E r \in handles :
       /\ root' = [root EXCEPT ![t] = r]
       /\ stack' = [stack EXCEPT ![t] = <<>>]
  /\ sort' = [sort EXCEPT ![t] = <<>>]
  /\ visited' = [visited EXCEPT ![t] = {}]
  /\ idx' = [idx EXCEPT ![t] = 0]
  /\ pc' = [pc EXCEPT ![t] = "dfs"]
  /\ call' = [call EXCEPT ![t] = NoCall]
  /\ cont' = [cont EXCEPT ![t] = NoCall]
  /\ x' = [x EXCEPT ![t] = 0]
  /\ y' = [y EXCEPT ![t] = 0]
  /\ g0' = [g0 EXCEPT ![t] = Grads(nodes)]
  /\ applied' = [applied EXCEPT ![t] = Zeros(Len(nodes))]
  /\ gAtRule' = [gAtRule EXCEPT ![t] = Zeros(Len(nodes))]
  /\ steps' = [steps EXCEPT ![t] = 0]
  /\ last' = [last EXCEPT ![t] = "none"]
  /\ reset' = IF last[t] = "backward" THEN {} ELSE reset
  /\ UNCHANGED <<shared, readers, writerPref, active, reserved>>

\* the id of the next call dfs(graph, id, ..): the root when topo begins,
\* then the next operand in the match arm of the innermost call
Calling(t) == IF stack[t] = <<>> THEN TRUE ELSE Top(t).todo # <<>>

Callee(t) == IF stack[t] = <<>> THEN root[t] ELSE Head(Top(t).todo)

\* the frames once the innermost call has made its next recursive call
Called(stk) ==
  IF stk = <<>> THEN stk ELSE [stk EXCEPT ![Len(stk)].todo = Tail(@)]

\* dfs(id) with id already in visited: it returns at once
DfsSkip(t) ==
  /\ pc[t] = "dfs"
  /\ Calling(t)
  /\ IsVisited(visited[t], Callee(t))
  /\ stack' = [stack EXCEPT ![t] = Called(stack[t])]
  /\ steps' = [steps EXCEPT ![t] = steps[t] + 1]
  /\ UNCHANGED <<shared, readers, writerPref, active, reserved, pc, locals,
                 sort, visited, root, idx, used, cap, g0, applied, gAtRule,
                 reset, last>>

\* dfs(id), first visit: visited.insert(id), then the scrutinee
\* graph.read().node(id).op.  The read guard is a temporary of the match
\* scrutinee: it lives until the match statement ends, across the recursive
\* calls made in the arms.
DfsVisit(t) ==
  /\ pc[t] = "dfs"
  /\ Calling(t)
  /\ ~IsVisited(visited[t], Callee(t))
  /\ CanRead(t)
  /\ visited' = [visited EXCEPT ![t] = @ \cup {Callee(t)}]
  /\ readers' = [readers EXCEPT ![t] = @ + 1]
  /\ stack' = [stack EXCEPT ![t] =
       Append(Called(stack[t]),
              [id |-> Callee(t), todo |-> Operands(Node(nodes, Callee(t)).op)])]
  /\ steps' = [steps EXCEPT ![t] = steps[t] + 1]
  /\ UNCHANGED <<shared, writerPref, active, reserved, pc, locals, sort, root,
                 idx, used, cap, g0, applied, gAtRule, reset, last>>

\* the match statement ends (its read guard is dropped), sort.push(id), and
\* dfs returns; topo returns when the root's call did
DfsReturn(t) ==
  /\ pc[t] = "dfs"
  /\ ~Calling(t)
  /\ readers' = [readers EXCEPT ![t] = @ - 1]
  /\ sort' = [sort EXCEPT ![t] = Append(@, Top(t).id)]
  /\ stack' = [stack EXCEPT ![t] = Pop(stack[t])]
  /\ pc' = [pc EXCEPT ![t] = IF Len(stack[t]) = 1 THEN "seed" ELSE "dfs"]
  /\ steps' = [steps EXCEPT ![t] = steps[t] + 1]
  /\ UNCHANGED <<shared, writerPref, active, reserved, locals, visited, root,
                 idx, used, cap, g0, applied, gAtRule, reset, last>>

\* backward: self.set_grad(1.0), one exclusive acquisition
Seed(t) ==
  /\ pc[t] = "seed"
  /\ CanWrite(t)
  /\ nodes' = Seeded(nodes, root[t])
  /\ idx' = [idx EXCEPT ![t] = Len(sort[t])]
  /\ pc' = [pc EXCEPT ![t] = "bwd"]
  /\ steps' = [steps EXCEPT ![t] = steps[t] + 1]
  /\ UNCHANGED <<ids, handles, readers, writerPref, active, reserved, locals,
                 stack, sort, visited, root, used, cap, g0, applied,
                 gAtRule, reset, last>>

\* backward's loop body: Op::backward(&self.graph, *id), one exclusive
\* acquisition; after the last element backward returns and sorted is dropped
BwdRule(t) ==
  /\ pc[t] = "bwd"
  /\ CanWrite(t)
  /\ LET id == IterRev(sort[t], idx[t])
     IN /\ nodes' = OpBackward(nodes, id)
        /\ applied' = [applied EXCEPT ![t][id + 1] = @ + 1]
        /\ gAtRule' = [gAtRule EXCEPT ![t][id + 1] = Node(nodes, id).grad]
  /\ idx' = [idx EXCEPT ![t] = @ - 1]
  /\ steps' = [steps EXCEPT ![t] = steps[t] + 1]
  /\ IF idx[t] = 1
       THEN /\ pc' = [pc EXCEPT ![t] = "idle"]
            /\ last' = [last EXCEPT ![t] = "backward"]
            /\ sort' = [sort EXCEPT ![t] = <<>>]
            /\ visited' = [visited EXCEPT ![t] = {}]
       ELSE UNCHANGED <<pc, last, sort, visited>>
  /\ UNCHANGED <<ids, handles, readers, writerPref, active, reserved, locals,
                 stack, root, used, cap, g0, reset>>

\* ------------------------------------------------------- specifications
\* a step of an operation under way
Step(t) ==
  \/ ScalarPush(t) \/ DataS(t) \/ DataO(t) \/ DataS2(t) \/ Mint(t)
  \/ ReadReturn(t) \/ SetGradWrite(t)
  \/ DfsSkip(t) \/ DfsVisit(t) \/ DfsReturn(t)
  \/ Seed(t) \/ BwdRule(t)

\* a call of the public surface
Call(t) ==
  \/ ScalarCall(t)
  \/ AddSS(t) \/ AddSF(t) \/ AddFS(t)
  \/ MulSS(t) \/ MulSF(t) \/ MulFS(t)
  \/ Neg(t)
  \/ SubSS(t) \/ SubSF(t) \/ SubFS(t)
  \/ DivSS(t) \/ DivSF(t) \/ DivFS(t)
  \/ PowCall(t) \/ ReluCall(t)
  \/ DataRead(t) \/ GradRead(t) \/ SetGradCall(t)
  \/ Backward(t)

Next == \E t \in Threads : Call(t) \/ Step(t)

\* threads in Threads share one graph
Spec == Init /\ [][Next]_vars

\* the same, with the calls that bring a backward pass and a writer together
LockSpec == LockInit /\ [][Next]_vars

\* one thread uses the graph
SeqSpec == SeqInit /\ [][Next]_vars

\* one thread, more passes on smaller graphs
RepeatSpec == RepeatInit /\ [][Next]_vars

\* =============================================================== claims
\* the operand indices an operation tag holds (Pow's second field is its
\* exponent, not an index)
Args(op) ==
  CASE op.kind \in {"Add", "Mul"} -> {op.s, op.o}
    [] op.kind \in {"Pow", "ReLU"} -> {op.s}
    [] OTHER -> {}

\* how many operand slots of node m hold n
Slots(ns, m, n) ==
  LET op == Node(ns, m).op
  IN (IF op.kind \in {"Add", "Mul", "Pow", "ReLU"} /\ op.s = n THEN 1 ELSE 0)
     + (IF op.kind \in {"Add", "Mul"} /\ op.o = n THEN 1 ELSE 0)

RECURSIVE ReachSet(_, _)
\* the nodes reachable from r along operand references
ReachSet(ns, r) ==
  {r} \cup UNION {ReachSet(ns, c) : c \in Args(Node(ns, r).op)}

\* d(node m) / d(node n) along the direct references of m to n
Local(ns, m, n) ==
  LET op == Node(ns, m).op
  IN CASE op.kind = "Add" ->
            (IF op.s = n THEN 1 ELSE 0) + (IF op.o = n THEN 1 ELSE 0)
       [] op.kind = "Mul" ->
            (IF op.s = n THEN Node(ns, op.o).data ELSE 0)
            + (IF op.o = n THEN Node(ns, op.s).data ELSE 0)
       [] op.kind = "Pow" ->
            IF op.s = n THEN op.o * PowF(Node(ns, op.s).data, op.o - 1) ELSE 0
       [] op.kind = "ReLU" ->
            IF op.s = n /\ Node(ns, m).data > 0 THEN 1 ELSE 0
       [] OTHER -> 0

RECURSIVE Deriv(_, _, _)
RECURSIVE DerivFrom(_, _, _, _)
\* the sum, over every path from r to n, of the product of the local
\* derivatives along it: a path to n goes through a node m > n that refers to n
Deriv(ns, r, n) ==
  IF n = r THEN 1 ELSE IF n > r THEN 0 ELSE DerivFrom(ns, r, n, n + 1)

DerivFrom(ns, r, n, m) ==
  IF m > r THEN 0
  ELSE Deriv(ns, r, m) * Local(ns, m, n) + DerivFrom(ns, r, n, m + 1)

RECURSIVE Contrib(_, _, _, _, _)
\* what the rules applied so far (those of nodes m..) have added to node n
Contrib(ns, t, n, m, len) ==
  IF m >= len THEN 0
  ELSE (IF applied[t][m + 1] >= 1 THEN Local(ns, m, n) * gAtRule[t][m + 1] ELSE 0)
       + Contrib(ns, t, n, m + 1, len)

Ids(ns) == 0..(Len(ns) - 1)

InPass(t) == pc[t] \in {"dfs", "seed", "bwd"}

PassDone(t) == pc[t] = "idle" /\ last[t] = "backward"

\* every gradient was 0 when t called backward()
Clean(t) == \A p \in DOMAIN g0[t] : g0[t][p] = 0

Grad(n) == Node(nodes, n).grad
Data(n) == Node(nodes, n).data
IsLeaf(n) == Node(nodes, n).op.kind = "None"

\* C1: after backward() from r on a graph whose gradients were all 0, the
\* gradient of every node reachable from r is the sum over all paths from r
\* to it of the product of the local derivatives along the path
C1_PathSum ==
  \A t \in active :
    (PassDone(t) /\ Clean(t)) =>
      \A n \in ReachSet(nodes, root[t]) : Grad(n) = Deriv(nodes, root[t], n)

\* a pass over a graph in which a node is referred to twice and receives a
\* non-zero sum
C1_Witness ==
  \E t \in active :
    /\ PassDone(t) /\ Clean(t)
    /\ \E n \in ReachSet(nodes, root[t]) :
         /\ Grad(n) # 0
         /\ \E m1, m2 \in ReachSet(nodes, root[t]) :
              /\ Slots(nodes, m1, n) >= 1 /\ Slots(nodes, m2, n) >= 1
              /\ (m1 # m2 \/ Slots(nodes, m1, n) = 2)
              /\ Local(nodes, m1, n) # 0 /\ Local(nodes, m2, n) # 0

\* the operands of node m are leaves, two different ones if it has two
OnFreshLeaves(m) ==
  LET op == Node(nodes, m).op
  IN /\ op.kind # "None"
     /\ \A c \in Args(op) : IsLeaf(c)
     /\ op.kind \in {"Add", "Mul"} => op.s # op.o

\* C2: a primitive applied to leaves a (and b) has the value a+b, a*b, a^k or
\* relu(a); after backward() from it, with the leaves' gradients 0 before, its
\* own gradient is 1 and the leaves hold 1 and 1 (Add), value(b) and value(a)
\* (Multiply), k*value(a)^(k-1) (Power), 1 if value(a) > 0 else 0 (ReLU)
C2_Primitives ==
  \A m \in Ids(nodes) :
    OnFreshLeaves(m) =>
      LET op == Node(nodes, m).op
          a == op.s
          b == op.o
      IN /\ op.kind = "Add" => Data(m) = Data(a) + Data(b)
         /\ op.kind = "Mul" => Data(m) = Data(a) * Data(b)
         /\ op.kind = "Pow" => Data(m) = PowF(Data(a), op.o)
         /\ op.kind = "ReLU" => Data(m) = (IF Data(a) > 0 THEN Data(a) ELSE 0)
         /\ \A t \in active :
              (/\ PassDone(t) /\ root[t] = m
               /\ \A c \in Args(op) : g0[t][c + 1] = 0) =>
                /\ Grad(m) = 1
                /\ op.kind = "Add" => Grad(a) = 1 /\ Grad(b) = 1
                /\ op.kind = "Mul" => Grad(a) = Data(b) /\ Grad(b) = Data(a)
                /\ op.kind = "Pow" =>
                     Grad(a) = op.o * PowF(Data(a), op.o - 1)
                /\ op.kind = "ReLU" =>
                     Grad(a) = (IF Data(a) > 0 THEN 1 ELSE 0)

\* backward() has run from a product of two leaves of different values
C2_Witness ==
  \E t \in active :
    /\ PassDone(t)
    /\ OnFreshLeaves(root[t])
    /\ Node(nodes, root[t]).op.kind = "Mul"
    /\ Data(Node(nodes, root[t]).op.s) # Data(Node(nodes, root[t]).op.o)
    /\ \A c \in Args(Node(nodes, root[t]).op) : g0[t][c + 1] = 0

\* in srt every operand of a node stands before the node, and r is last
TopoOrdered(ns, srt, r) ==
  /\ srt # <<>>
  /\ srt[Len(srt)] = r
  /\ \A i \in 1..Len(srt) :
       \A c \in Args(Node(ns, srt[i]).op) : \E j \in 1..(i - 1) : srt[j] = c

\* C3: in the sequence topo(r) returns, every operand index of a node stands
\* at an earlier position than the node, and r is last
C3_TopoOrder ==
  \A t \in active :
    pc[t] \in {"seed", "bwd"} => TopoOrdered(nodes, sort[t], root[t])

\* topo has returned an order over a graph with a node referred to twice
C3_Witness ==
  \E t \in active :
    /\ pc[t] = "seed"
    /\ Len(sort[t]) >= 3
    /\ \E n, m1, m2 \in ReachSet(nodes, root[t]) :
         m1 # m2 /\ n \in Args(Node(nodes, m1).op) /\ n \in Args(Node(nodes, m2).op)

\* C4: every operand index a node stores is below the arena length and below
\* the node's own index, every index push returned is the position of the
\* record appended, no two records share one, and every handle names a record
C4_IndexDiscipline ==
  /\ Len(ids) = Len(nodes)
  /\ \A p \in 1..Len(nodes) :
       /\ ids[p] = p - 1
       /\ \A c \in Args(nodes[p].op) : 0 <= c /\ c < Len(nodes) /\ c < ids[p]
  /\ \A p, q \in 1..Len(ids) : ids[p] = ids[q] => p = q
  /\ handles \subseteq Ids(nodes)

\* both threads are minting at once, in a graph that already holds a node
\* with operands
C4_Witness ==
  /\ \A t \in Threads : pc[t] \in {"leaf", "const", "mint"}
  /\ \E p \in 1..Len(nodes) : nodes[p].op.kind # "None"

\* C5: a step never changes the value or the operation of a node or removes
\* one, and a step of backward(r) changes no gradient outside the nodes
\* reachable from r and adds no node
C5_OnlyGradientsChange ==
  [][/\ Len(nodes') >= Len(nodes)
     /\ \A p \in 1..Len(nodes) :
          nodes'[p].data = nodes[p].data /\ nodes'[p].op = nodes[p].op
     /\ \A t \in Threads :
          (InPass(t) /\ steps'[t] # steps[t]) =>
            /\ Len(nodes') = Len(nodes)
            /\ \A n \in Ids(nodes) \ ReachSet(nodes, root[t]) :
                 Node(nodes', n).grad = Node(nodes, n).grad]_vars

\* a pass has changed gradients beside a node it does not reach
C5_Witness ==
  \E t \in Threads :
    /\ PassDone(t)
    /\ Ids(nodes) \ ReachSet(nodes, root[t]) # {}
    /\ \E n \in ReachSet(nodes, root[t]) : n # root[t] /\ Grad(n) # g0[t][n + 1]

Requesting(t) ==
  \/ pc[t] \in {"leaf", "const", "mint", "set_grad", "seed", "bwd"}
  \/ pc[t] \in {"data_s", "data_o", "data_s2", "rd_data", "rd_grad"}
  \/ pc[t] = "dfs" /\ Calling(t) /\ ~IsVisited(visited[t], Callee(t))

\* C7: no thread requests the lock while it holds a guard of it
C7_NoNestedAcquisition ==
  \A t \in Threads : Requesting(t) => readers[t] = 0

\* C8: a thread that has started an operation is never left waiting with no
\* started operation able to take a step
C8_NoDeadlock ==
  (\E t \in Threads : pc[t] # "idle") =>
    \E u \in Threads : pc[u] # "idle" /\ ENABLED Step(u)

\* C9: a single-threaded pass always has a next step, takes at most
\* 5 * |reachable| + 1 steps, applies no rule twice and none to a node that is
\* not reachable, and when it is over it has applied the rule of every
\* reachable node exactly once
C9_EachRuleOnce ==
  \A t \in active :
    /\ InPass(t) =>
         /\ ENABLED Step(t)
         /\ steps[t] <= 5 * Cardinality(ReachSet(nodes, root[t])) + 1
    /\ (InPass(t) \/ PassDone(t)) =>
         \A n \in Ids(nodes) :
           /\ applied[t][n + 1] <= 1
           /\ n \notin ReachSet(nodes, root[t]) => applied[t][n + 1] = 0
    /\ PassDone(t) =>
         \A n \in ReachSet(nodes, root[t]) : applied[t][n + 1] = 1

\* a pass is over in a graph with a node reached along two paths and a node
\* that is not reached
C9_Witness ==
  \E t \in active :
    /\ PassDone(t)
    /\ Ids(nodes) \ ReachSet(nodes, root[t]) # {}
    /\ \E n, m1, m2 \in ReachSet(nodes, root[t]) :
         /\ Slots(nodes, m1, n) >= 1 /\ Slots(nodes, m2, n) >= 1
         /\ (m1 # m2 \/ Slots(nodes, m1, n) = 2)

\* C10: within a single-threaded pass from r, r holds 1 when the first rule
\* is applied, whatever it held before; a node's rule is applied only after
\* the rule of every reachable node that refers to it; a gradient is not
\* written after its node's rule was applied; and the gradient of a node
\* other than r is what it held before plus what the applied rules added
C10_FinalWhenApplied ==
  \A t \in active :
    ((pc[t] = "bwd") \/ PassDone(t)) =>
      /\ applied[t][root[t] + 1] = 0 => Grad(root[t]) = 1
      /\ applied[t][root[t] + 1] >= 1 => gAtRule[t][root[t] + 1] = 1
      /\ \A n \in Ids(nodes) :
           /\ applied[t][n + 1] >= 1 =>
                /\ Grad(n) = gAtRule[t][n + 1]
                /\ \A m \in ReachSet(nodes, root[t]) :
                     n \in Args(Node(nodes, m).op) => applied[t][m + 1] >= 1
           /\ n # root[t] =>
                Grad(n) = g0[t][n + 1] + Contrib(nodes, t, n, 0, Len(nodes))

\* a pass is under way from a root that held 3 before, with rules applied
\* and rules still to apply, over a node referred to twice
C10_Witness ==
  \E t \in active :
    /\ pc[t] = "bwd"
    /\ g0[t][root[t] + 1] = 3
    /\ \E n \in Ids(nodes) : applied[t][n + 1] = 1
    /\ \E n \in ReachSet(nodes, root[t]) :
         /\ applied[t][n + 1] = 0
         /\ Grad(n) # g0[t][n + 1]
         /\ \E m \in ReachSet(nodes, root[t]) : Slots(nodes, m, n) = 2

====
